---- MODULE Spec2Model ----
(***************************************************************************)
(* State-machine model of CLIP_lightning.ipynb.                            *)
(*                                                                         *)
(* The notebook defines CringeCLIPModel (a pl.LightningModule around an    *)
(* open_clip RN50 model) twice, runs one inference, drives                 *)
(* pl.Trainer(max_steps=0).fit over a synthetic dataset, saves a           *)
(* checkpoint, and reloads it into an instance of the second class         *)
(* definition.                                                             *)
(*                                                                         *)
(* Tensors are sequences of rows; a row is a sequence of integers.  A      *)
(* normalised element is the pair [num, den2] standing for num/sqrt(den2), *)
(* so that division by a norm is exact; den2 = 0 is a division by zero     *)
(* (a non-finite float).  The encoder, the tokenizer, the optimizer and    *)
(* the training loop are external collaborators, modelled at the place the *)
(* notebook calls them: the encoder is a deterministic function of the     *)
(* clip_module's state_dict entries and of its input, the text tower reads *)
(* only text parameters, and the RN50 visual tower holds batch-norm        *)
(* buffers that a forward pass in training mode updates.                   *)
(***************************************************************************)
EXTENDS Integers, Sequences, FiniteSets, TLC

(***************************************************************************)
(* Bounds of the model.                                                    *)
(***************************************************************************)
\* Width D of an embedding row (the encoder's output size).
EmbedDim == 2
\* The runner is explored for every max_steps in 0..MaxSteps; the notebook's
\* own run is the case max_steps = NotebookMaxSteps.
MaxSteps == 1
\* Cap on the number of training-mode image forwards (num_batches_tracked).
MaxTracked == 1
\* Number of distinct random initialisations create_model can draw.
NumInitDraws == 2

(***************************************************************************)
(* Program constants.                                                      *)
(***************************************************************************)
NotebookMaxSteps == 0
DatasetLen == 100
LoaderBatchSize == 10
NumSanityValSteps == 2

(***************************************************************************)
(* Optional values and tensors.                                            *)
(***************************************************************************)
None == [tag |-> "None"]
Tensor(rows) == [tag |-> "Tensor", rows |-> rows]
IsNone(v) == v.tag = "None"

RECURSIVE SumSeq(_)
SumSeq(s) == IF s = <<>> THEN 0 ELSE Head(s) + SumSeq(Tail(s))

RECURSIVE ProdSeq(_)
ProdSeq(s) == IF s = <<>> THEN 1 ELSE Head(s) * ProdSeq(Tail(s))

Min2(a, b) == IF a <= b THEN a ELSE b

\* tensor.size() of a 2-D tensor
Size(rows) == <<Len(rows), Len(rows[1])>>

\* tensor.squeeze(0): drops the first dimension when it has size 1
Squeeze0(rows) == IF Len(rows) = 1 THEN rows[1] ELSE rows

(***************************************************************************)
(* The clip_module: its state_dict maps parameter and buffer names to      *)
(* values.                                                                 *)
(***************************************************************************)
TextParamNames == {"token_embedding.weight", "text_projection"}
VisualParamNames == {"visual.conv1.weight"}
ParamNames == TextParamNames \cup VisualParamNames
BufferNames == {"visual.bn1.running_mean", "visual.bn1.num_batches_tracked"}
ClipKeys == ParamNames \cup BufferNames

ClipState(te, tp, cv, rm, nbt) ==
    [k \in ClipKeys |->
        CASE k = "token_embedding.weight" -> te
          [] k = "text_projection" -> tp
          [] k = "visual.conv1.weight" -> cv
          [] k = "visual.bn1.running_mean" -> rm
          [] OTHER -> nbt]

\* Contents the file rn50-quickgelu-yfcc15m.pt may have (torch.load result).
WeightFiles == {ClipState(1, 1, 1, 1, 0), ClipState(2, -1, 2, 0, 0)}

\* open_clip.create_model_and_transforms("RN50") without `pretrained`:
\* randomly initialised parameters, batch-norm buffers at their initial value.
CreateModel(r) == ClipState(r + 2, r, 0 - r, 0, 0)
InitDraws == 1..NumInitDraws

\* open_clip.get_tokenizer("RN50"): strings -> one token row per string.  A
\* token row is abstracted to one integer code.
TokenCode(s) == IF s = "a photo of a cat" THEN 3 ELSE 0
Tokenize(strings) == [i \in 1..Len(strings) |-> TokenCode(strings[i])]
Prompt == <<"a photo of a cat">>

\* Faulty variant: load_state_dict that reports success and copies nothing.
LoadStateDictNoCopy(current, given) == [ok |-> TRUE, sd |-> current]

(***************************************************************************)
(* torch.nn.Module.load_state_dict(given), strict: every matching entry is *)
(* copied, then missing or unexpected keys raise RuntimeError.             *)
(***************************************************************************)
LoadStateDict(current, given) ==
    [ok |-> DOMAIN given = DOMAIN current,
     sd |-> [k \in DOMAIN current |->
                IF k \in DOMAIN given THEN given[k] ELSE current[k]]]

\* state_dict() of the wrapper: the clip_module's entries under the prefix
\* of the attribute that holds it.
StateDict(m) ==
    [k \in {<<"clip_module", n>> : n \in DOMAIN m.clip_module} |->
        m.clip_module[k[2]]]

\* Faulty variant: the checkpoint loaded into the clip_module directly and not
\* strictly: its keys carry the wrapper's prefix, none matches, nothing is
\* copied and nothing is raised.
ModuleLoadUnprefixed(m, given) == [ok |-> TRUE, model |-> m]

\* load_state_dict on the wrapper
ModuleLoadStateDict(m, given) ==
    LET r == LoadStateDict(StateDict(m), given)
    IN  [ok |-> r.ok,
         model |-> [m EXCEPT !.clip_module =
                       [n \in DOMAIN m.clip_module |-> r.sd[<<"clip_module", n>>]]]]

(***************************************************************************)
(* CringeCLIPModel.__init__, first and second definition.                  *)
(***************************************************************************)
NoModel ==
    [class |-> 0, clip_module |-> ClipState(0, 0, 0, 0, 0),
     tokenizer |-> "none", preprocess |-> "none", training |-> TRUE]

\* Faulty variant: the first definition's __init__ without the load of the weight file.
Init1NoLoad(r, file) ==
    [ok |-> TRUE,
     model |-> [class |-> 1, clip_module |-> CreateModel(r),
                tokenizer |-> "RN50", preprocess |-> "RN50",
                training |-> TRUE]]

Init1(r, file) ==
    LET created == CreateModel(r)
        loaded == LoadStateDict(created, file)
    IN  [ok |-> loaded.ok,
         model |-> [class |-> 1, clip_module |-> loaded.sd,
                    tokenizer |-> "RN50", preprocess |-> "RN50",
                    training |-> TRUE]]

Init2(r) ==
    [ok |-> TRUE,
     model |-> [class |-> 2, clip_module |-> CreateModel(r),
                tokenizer |-> "RN50", preprocess |-> "RN50",
                training |-> TRUE]]

\* CringeCLIPModel(): the definition the name is bound to when the cell runs
Construct(cd, r, file) == IF cd = 1 THEN Init1(r, file) ELSE Init2(r)

(***************************************************************************)
(* The encoders.                                                           *)
(***************************************************************************)
\* clip_module.encode_text(text): reads the text tower's parameters only.
EncodeText(clip, text) ==
    [i \in 1..Len(text) |->
        [j \in 1..EmbedDim |->
            text[i] * (clip["token_embedding.weight"]
                       + (j - 1) * clip["text_projection"])]]

\* clip_module.encode_image(image): the visual tower normalises with the
\* batch statistic in training mode, and then stores it in its buffers; in
\* eval mode it reads the stored statistic.
EncodeImage(clip, training, image) ==
    LET stat == IF training THEN SumSeq(image)
                ELSE clip["visual.bn1.running_mean"]
    IN  [x |-> [i \in 1..Len(image) |->
                  [j \in 1..EmbedDim |->
                      clip["visual.conv1.weight"] * image[i] + (j - 1) * stat]],
         clip |-> IF training
                  THEN [clip EXCEPT
                          !["visual.bn1.running_mean"] = SumSeq(image),
                          !["visual.bn1.num_batches_tracked"] = @ + 1]
                  ELSE clip]

(***************************************************************************)
(* x /= x.norm(dim=-1, keepdim=True)                                       *)
(***************************************************************************)
\* Faulty variant: the norm taken along dim=0 (over the batch), keepdim: shape [1, D]
NormSqDim0(x) ==
    <<[j \in 1..Len(x[1]) |-> SumSeq([i \in 1..Len(x) |-> x[i][j] * x[i][j]])]>>

\* squared norm along the last dimension, keepdim: shape [batch, 1]
NormSqLastDim(x) ==
    [i \in 1..Len(x) |-> <<SumSeq([j \in 1..Len(x[i]) |-> x[i][j] * x[i][j]])>>]

\* elementwise division with broadcasting of size-1 dimensions
DivBroadcast(x, n2) ==
    LET one_row == Len(n2) = 1
    IN  [i \in 1..Len(x) |->
           LET r == n2[IF one_row THEN 1 ELSE i]
               one_col == Len(r) = 1
           IN  [j \in 1..Len(x[i]) |->
                  [num |-> x[i][j], den2 |-> r[IF one_col THEN 1 ELSE j]]]]

\* Faulty variant: the norm clamped away from zero before the division.
NormalizeClamped(x) ==
    DivBroadcast(x, [i \in 1..Len(x) |->
                       <<IF NormSqLastDim(x)[i][1] = 0 THEN 1
                         ELSE NormSqLastDim(x)[i][1]>>])

Normalize(x) == DivBroadcast(x, NormSqLastDim(x))

(***************************************************************************)
(* CringeCLIPModel.forward (both definitions have the same body).  The     *)
(* field inplace records that x.norm saved x for its backward pass and     *)
(* that `x /=` then modified x in place.                                   *)
(***************************************************************************)
\* Faulty variant: the usage error is not raised; the call falls through and returns
\* None.
ForwardNoRaise(m, text, image) ==
    IF IsNone(text) /\ IsNone(image)
    THEN [outcome |-> "returned", result |-> None, calls |-> <<>>, inplace |-> FALSE,
          clip |-> m.clip_module]
    ELSE IF ~IsNone(image)
    THEN LET e == EncodeImage(m.clip_module, m.training, image.rows)
         IN  [outcome |-> "returned", result |-> Tensor(Normalize(e.x)),
              calls |-> <<"encode_image">>, inplace |-> TRUE, clip |-> e.clip]
    ELSE [outcome |-> "returned",
          result |-> Tensor(Normalize(EncodeText(m.clip_module, text.rows))),
          calls |-> <<"encode_text">>, inplace |-> TRUE, clip |-> m.clip_module]

\* Faulty variant: the text branch is tested before the image branch.
ForwardTextFirst(m, text, image) ==
    IF IsNone(text) /\ IsNone(image)
    THEN [outcome |-> "ValueError", result |-> None, calls |-> <<>>, inplace |-> FALSE,
          clip |-> m.clip_module]
    ELSE IF ~IsNone(text)
    THEN [outcome |-> "returned",
          result |-> Tensor(Normalize(EncodeText(m.clip_module, text.rows))),
          calls |-> <<"encode_text">>, inplace |-> TRUE, clip |-> m.clip_module]
    ELSE LET e == EncodeImage(m.clip_module, m.training, image.rows)
         IN  [outcome |-> "returned", result |-> Tensor(Normalize(e.x)),
              calls |-> <<"encode_image">>, inplace |-> TRUE, clip |-> e.clip]

\* Faulty variant: the in-place division writes through to a parameter the text
\* embedding aliases.
ForwardInPlaceAlias(m, text, image) ==
    IF IsNone(text) /\ IsNone(image)
    THEN [outcome |-> "ValueError", result |-> None, calls |-> <<>>, inplace |-> FALSE,
          clip |-> m.clip_module]
    ELSE IF ~IsNone(image)
    THEN LET e == EncodeImage(m.clip_module, m.training, image.rows)
         IN  [outcome |-> "returned", result |-> Tensor(Normalize(e.x)),
              calls |-> <<"encode_image">>, inplace |-> TRUE, clip |-> e.clip]
    ELSE [outcome |-> "returned",
          result |-> Tensor(Normalize(EncodeText(m.clip_module, text.rows))),
          calls |-> <<"encode_text">>, inplace |-> TRUE,
          clip |-> [m.clip_module EXCEPT !["text_projection"] = @ + 1]]

Forward(m, text, image) ==
    IF IsNone(text) /\ IsNone(image)
    THEN [outcome |-> "ValueError", result |-> None, calls |-> <<>>, inplace |-> FALSE,
          clip |-> m.clip_module]
    ELSE IF ~IsNone(image)
    THEN LET e == EncodeImage(m.clip_module, m.training, image.rows)
         IN  [outcome |-> "returned", result |-> Tensor(Normalize(e.x)),
              calls |-> <<"encode_image">>, inplace |-> TRUE, clip |-> e.clip]
    ELSE IF ~IsNone(text)
    THEN [outcome |-> "returned",
          result |-> Tensor(Normalize(EncodeText(m.clip_module, text.rows))),
          calls |-> <<"encode_text">>, inplace |-> TRUE, clip |-> m.clip_module]
    ELSE [outcome |-> "returned", result |-> None, calls |-> <<>>, inplace |-> FALSE,
          clip |-> m.clip_module]

\* F.mse_loss(y, output): a scalar whose value is not modelled, only the
\* shapes it was computed from
MseLoss(y, output) ==
    [op |-> "mse_loss", input_size |-> Size(y.rows), target_size |-> Size(output)]

(***************************************************************************)
(* DummyDataset, random_split and DataLoader (cell 7).                     *)
(***************************************************************************)
\* torch.randn(size): every call draws a fresh tensor, independently of the
\* other calls.  A draw is abstracted to one of TargetVals filling the shape.
TargetVals == {-1, 1}
Randn(size, v) == [i \in 1..size[1] |-> [j \in 1..size[2] |-> v]]

\* Faulty variant: a dataset length that is no multiple of the batch size.
DatasetLengthShort == DatasetLen - 5

\* DummyDataset.__len__
DatasetLength == DatasetLen

\* DummyDataset.__getitem__(idx), with v the random draw
GetItem(ex_out, idx, v) ==
    [text |-> Squeeze0(Tokenize(Prompt)),
     output |-> Squeeze0(Randn(Size(ex_out.rows), v))]

\* int(len(dataset) * 0.8), int(len(dataset) * 0.2)
SplitLengths(n) == <<(n * 8) \div 10, (n * 2) \div 10>>

\* torch.utils.data.random_split: the lengths must add up to the dataset's
RandomSplit(n, lengths) ==
    [ok |-> lengths[1] + lengths[2] = n, train |-> lengths[1], val |-> lengths[2]]

\* DataLoader(subset, batch_size=10): batch_size of the two loaders
BatchSizeArg == LoaderBatchSize

\* len(DataLoader) and the size of its b-th batch (drop_last is False)
NumBatches(n, bs) == (n + bs - 1) \div bs
BatchLen(n, bs, b) == Min2(bs, n - (b - 1) * bs)

\* default collate of a list of items
Collate(items) ==
    [text |-> [i \in 1..Len(items) |-> items[i].text],
     output |-> [i \in 1..Len(items) |-> items[i].output]]

\* the items the loader has fetched for its next batch: none yet
NoBatch == <<>>

(***************************************************************************)
(* configure_optimizers and the Adam step.  The loss of training_step      *)
(* reaches the text tower only, so the visual parameters have no gradient; *)
(* a step moves every parameter with a gradient by one unit against the    *)
(* sign g of its gradient.  The step follows a backward pass that          *)
(* succeeded.                                                              *)
(***************************************************************************)
GradSigns == {-1, 1}
AdamStep(clip, g) ==
    [k \in DOMAIN clip |-> IF k \in TextParamNames THEN clip[k] - g ELSE clip[k]]

\* Faulty variant: the stopping rule off by one.
MaxStepsReachedOffByOne(t) == t.global_step > t.max_steps

\* the fit loop's stopping rule for max_steps
MaxStepsReached(t) == t.global_step >= t.max_steps

\* CringeCLIPModel.validation_step / training_step: forward on the batch's
\* text, then the loss against the batch's output
StepForward(m, b) == Forward(m, Tensor(b.text), None)
StepLoss(f, b) ==
    [loss |-> MseLoss(f.result, b.output), inplace |-> f.inplace]

\* loss.backward(), run by the trainer on training_step's loss: autograd
\* refuses a graph in which a tensor saved for backward was modified in
\* place (RuntimeError)
Backward(l) == [ok |-> ~l.inplace]

(***************************************************************************)
(* State.                                                                  *)
(***************************************************************************)
VARIABLES
    pc,                 \* next notebook cell, or the position inside fit
    class_def,          \* which definition the name CringeCLIPModel is bound to
    weight_file,        \* contents of rn50-quickgelu-yfcc15m.pt
    model,              \* the notebook global `model`
    init_draw,          \* the random initialisation of the latest construction
    example_output,     \* the notebook global `example_output`
    output_before_save, \* history: the embedding cell 5 computed
    cell_error,         \* exception the last cell ended with
    last_op,            \* history: the operation that ran last
    last_call,          \* history: the last invocation of forward
    loaders,            \* training_set / validation_set / the two DataLoaders
    trainer,            \* pl.Trainer: max_steps, global_step
    sanity_done,        \* validation batches run by the sanity check
    batch,              \* the items the loader has fetched for the next step
    loss,               \* the loss the last step returned
    ckpt                \* contents of cringe_clip.ckpt

vars == <<pc, class_def, weight_file, model, init_draw, example_output,
          output_before_save, cell_error, last_op, last_call, loaders, trainer,
          sanity_done, batch, loss, ckpt>>

NoCall == [text |-> None, image |-> None, outcome |-> "none", result |-> None,
           calls |-> <<>>]
CallRecord(text, image, f) ==
    [text |-> text, image |-> image, outcome |-> f.outcome, result |-> f.result,
     calls |-> f.calls]

Init ==
    /\ pc = "cell1"
    /\ class_def = 0
    /\ weight_file \in WeightFiles
    /\ model = NoModel
    /\ init_draw = 0
    /\ example_output = None
    /\ output_before_save = None
    /\ cell_error = "none"
    /\ last_op = "start"
    /\ last_call = NoCall
    /\ loaders = [train |-> 0, val |-> 0, batch_size |-> 0]
    /\ trainer = [max_steps |-> 0, global_step |-> 0]
    /\ sanity_done = 0
    /\ batch = NoBatch
    /\ loss = None
    /\ ckpt = None

(***************************************************************************)
(* Cells 1 to 5.                                                           *)
(***************************************************************************)
\* cell 1: the first definition of CringeCLIPModel
DefineClass1 ==
    /\ pc = "cell1"
    /\ class_def' = 1
    /\ pc' = "cell3"
    /\ last_op' = "cell1"
    /\ cell_error' = "none"
    /\ UNCHANGED <<weight_file, model, init_draw, example_output,
                   output_before_save, last_call, loaders, trainer,
                   sanity_done, batch, loss, ckpt>>

\* cell 3: model = CringeCLIPModel()
Cell3 ==
    /\ pc = "cell3"
    /\ \E r \in InitDraws :
         LET c == Construct(class_def, r, weight_file)
         IN  /\ init_draw' = r
             /\ model' = IF c.ok THEN c.model ELSE model
             /\ cell_error' = IF c.ok THEN "none" ELSE "RuntimeError"
    /\ pc' = "cell5"
    /\ last_op' = "cell3"
    /\ UNCHANGED <<class_def, weight_file, example_output, output_before_save,
                   last_call, loaders, trainer, sanity_done, batch, loss, ckpt>>

\* cell 5: example_output = model.forward(text = model.tokenizer([...]));
\* print(x).  The notebook never assigns x: the print raises NameError unless
\* the kernel still holds an x from an earlier session.
Cell5 ==
    /\ pc = "cell5"
    /\ model.class # 0
    /\ LET text == Tensor(Tokenize(Prompt))
           f == Forward(model, text, None)
       IN  /\ f.outcome = "returned"
           /\ example_output' = f.result
           /\ output_before_save' = f.result
           /\ model' = [model EXCEPT !.clip_module = f.clip]
           /\ last_call' = CallRecord(text, None, f)
    /\ \E x_defined \in BOOLEAN :
         cell_error' = IF x_defined THEN "none" ELSE "NameError"
    /\ pc' = "cell7"
    /\ last_op' = "cell5"
    /\ UNCHANGED <<class_def, weight_file, init_draw, loaders, trainer,
                   sanity_done, batch, loss, ckpt>>

(***************************************************************************)
(* A call of model.forward with arbitrary arguments, between cells.        *)
(***************************************************************************)
TextInputs == {Tensor(<<3>>), Tensor(<<0>>), Tensor(<<0, 3>>)}
ImageInputs == {Tensor(<<1>>), Tensor(<<0>>), Tensor(<<0, 1, -1>>)}
RestPoints == {"cell5", "cell7", "cell9", "cell11", "done"}

CallForward ==
    /\ pc \in RestPoints
    /\ model.class # 0
    /\ \E text \in TextInputs \cup {None}, image \in ImageInputs \cup {None} :
         LET f == Forward(model, text, image)
         IN  /\ f.clip["visual.bn1.num_batches_tracked"] <= MaxTracked
             /\ model' = [model EXCEPT !.clip_module = f.clip]
             /\ last_call' = CallRecord(text, image, f)
    /\ last_op' = "forward"
    /\ UNCHANGED <<pc, class_def, weight_file, init_draw, example_output,
                   output_before_save, cell_error, loaders, trainer,
                   sanity_done, batch, loss, ckpt>>

(***************************************************************************)
(* Cell 7: dataset, loaders, Trainer(max_steps).fit, save_checkpoint.      *)
(***************************************************************************)
\* dataset = DummyDataset(); random_split; the two DataLoaders; pl.Trainer
Cell7Setup ==
    /\ pc = "cell7"
    /\ LET split == RandomSplit(DatasetLength, SplitLengths(DatasetLength))
       IN  IF split.ok
           THEN /\ loaders' = [train |-> split.train, val |-> split.val,
                               batch_size |-> BatchSizeArg]
                /\ \E k \in 0..MaxSteps :
                     trainer' = [max_steps |-> k, global_step |-> 0]
                /\ cell_error' = "none"
                /\ pc' = "fit"
           ELSE /\ cell_error' = "ValueError"
                /\ pc' = "cell9"
                /\ UNCHANGED <<loaders, trainer>>
    /\ last_op' = "cell7"
    /\ UNCHANGED <<class_def, weight_file, model, init_draw, example_output,
                   output_before_save, last_call, sanity_done, batch, loss, ckpt>>

SanitySteps == Min2(NumSanityValSteps, NumBatches(loaders.val, loaders.batch_size))

\* model_trainer.fit(model, train_loader, val_loader): the sanity check
\* starts, with the module in eval mode
FitStart ==
    /\ pc = "fit"
    /\ model' = [model EXCEPT !.training = FALSE]
    /\ sanity_done' = 0
    /\ pc' = "sanity"
    /\ last_op' = "fit"
    /\ UNCHANGED <<class_def, weight_file, init_draw, example_output,
                   output_before_save, cell_error, last_call, loaders, trainer,
                   batch, loss, ckpt>>

\* a step is due: a sanity validation batch, or a training batch
ValStepDue == pc = "sanity" /\ sanity_done < SanitySteps
TrainStepDue ==
    /\ pc = "fit_loop"
    /\ ~MaxStepsReached(trainer)
    /\ trainer.global_step < NumBatches(loaders.train, loaders.batch_size)
NextBatchLen ==
    IF pc = "sanity"
    THEN BatchLen(loaders.val, loaders.batch_size, sanity_done + 1)
    ELSE BatchLen(loaders.train, loaders.batch_size, trainer.global_step + 1)

\* the loader fetches one item of its next batch: DummyDataset.__getitem__
FetchItem ==
    /\ ValStepDue \/ TrainStepDue
    /\ Len(batch) < NextBatchLen
    /\ \E v \in TargetVals :
         batch' = Append(batch, GetItem(example_output, Len(batch) + 1, v))
    /\ last_op' = "getitem"
    /\ UNCHANGED <<pc, class_def, weight_file, model, init_draw, example_output,
                   output_before_save, cell_error, last_call, loaders, trainer,
                   sanity_done, loss, ckpt>>

\* one validation batch of the sanity check: validation_step(batch, idx)
SanityValStep ==
    /\ ValStepDue
    /\ Len(batch) = NextBatchLen
    /\ LET b == Collate(batch)
           f == StepForward(model, b)
       IN  /\ f.outcome = "returned"
           /\ loss' = StepLoss(f, b)
           /\ model' = [model EXCEPT !.clip_module = f.clip]
           /\ last_call' = CallRecord(Tensor(b.text), None, f)
    /\ batch' = NoBatch
    /\ sanity_done' = sanity_done + 1
    /\ last_op' = "validation_step"
    /\ UNCHANGED <<pc, class_def, weight_file, init_draw, example_output,
                   output_before_save, cell_error, loaders, trainer, ckpt>>

\* the sanity check ends: the module is put back in training mode
SanityEnd ==
    /\ pc = "sanity"
    /\ sanity_done = SanitySteps
    /\ model' = [model EXCEPT !.training = TRUE]
    /\ batch' = NoBatch
    /\ loss' = None
    /\ pc' = "fit_loop"
    /\ last_op' = "fit"
    /\ UNCHANGED <<class_def, weight_file, init_draw, example_output,
                   output_before_save, cell_error, last_call, loaders, trainer,
                   sanity_done, ckpt>>

\* one pass of the fit loop: training_step(batch, idx), loss.backward(),
\* then the Adam step.  A backward pass that raises aborts fit and the cell:
\* no optimizer step is made and save_checkpoint is not reached.
TrainingStep ==
    /\ TrainStepDue
    /\ Len(batch) = NextBatchLen
    /\ LET b == Collate(batch)
           f == StepForward(model, b)
           l == StepLoss(f, b)
       IN  /\ f.outcome = "returned"
           /\ loss' = l
           /\ last_call' = CallRecord(Tensor(b.text), None, f)
           /\ IF Backward(l).ok
              THEN /\ \E g \in GradSigns :
                        model' = [model EXCEPT !.clip_module = AdamStep(f.clip, g)]
                   /\ trainer' = [trainer EXCEPT !.global_step = @ + 1]
                   /\ UNCHANGED <<pc, cell_error>>
              ELSE /\ model' = [model EXCEPT !.clip_module = f.clip]
                   /\ cell_error' = "RuntimeError"
                   /\ pc' = "cell9"
                   /\ UNCHANGED trainer
    /\ batch' = NoBatch
    /\ last_op' = "training_step"
    /\ UNCHANGED <<class_def, weight_file, init_draw, example_output,
                   output_before_save, loaders, sanity_done, ckpt>>

\* `Trainer.fit` stopped: `max_steps` reached
FitStop ==
    /\ pc = "fit_loop"
    /\ MaxStepsReached(trainer)
    /\ batch' = NoBatch
    /\ loss' = None
    /\ pc' = "save"
    /\ last_op' = "fit"
    /\ UNCHANGED <<class_def, weight_file, model, init_draw, example_output,
                   output_before_save, cell_error, last_call, loaders, trainer,
                   sanity_done, ckpt>>

\* model_trainer.save_checkpoint("cringe_clip.ckpt")
SaveCheckpoint ==
    /\ pc = "save"
    /\ ckpt' = [tag |-> "Checkpoint", state_dict |-> StateDict(model),
                global_step |-> trainer.global_step]
    /\ pc' = "cell9"
    /\ last_op' = "save_checkpoint"
    /\ UNCHANGED <<class_def, weight_file, model, init_draw, example_output,
                   output_before_save, cell_error, last_call, loaders, trainer,
                   sanity_done, batch, loss>>

(***************************************************************************)
(* Cells 9 and 11.                                                         *)
(***************************************************************************)
\* cell 9: the second definition of CringeCLIPModel
DefineClass2 ==
    /\ pc = "cell9"
    /\ class_def' = 2
    /\ pc' = "cell11"
    /\ last_op' = "cell9"
    /\ cell_error' = "none"
    /\ UNCHANGED <<weight_file, model, init_draw, example_output,
                   output_before_save, last_call, loaders, trainer,
                   sanity_done, batch, loss, ckpt>>

\* cell 11: model = CringeCLIPModel(); model.load_state_dict(
\* torch.load("cringe_clip.ckpt")["state_dict"]); example_output =
\* model.forward(text = ...); print(example_output)
Cell11 ==
    /\ pc = "cell11"
    /\ \E r \in InitDraws :
         LET c == Construct(class_def, r, weight_file)
             ld == ModuleLoadStateDict(c.model, ckpt.state_dict)
             text == Tensor(Tokenize(Prompt))
             f == Forward(ld.model, text, None)
         IN  /\ init_draw' = r
             /\ IF ~c.ok
                THEN /\ cell_error' = "RuntimeError"
                     /\ UNCHANGED <<model, example_output, last_call>>
                ELSE IF IsNone(ckpt)
                THEN /\ cell_error' = "FileNotFoundError"
                     /\ model' = c.model
                     /\ UNCHANGED <<example_output, last_call>>
                ELSE IF ~ld.ok
                THEN /\ cell_error' = "RuntimeError"
                     /\ model' = ld.model
                     /\ UNCHANGED <<example_output, last_call>>
                ELSE /\ cell_error' = "none"
                     /\ model' = [ld.model EXCEPT !.clip_module = f.clip]
                     /\ example_output' = f.result
                     /\ last_call' = CallRecord(text, None, f)
    /\ pc' = "done"
    /\ last_op' = "cell11"
    /\ UNCHANGED <<class_def, weight_file, output_before_save, loaders, trainer,
                   sanity_done, batch, loss, ckpt>>

Next ==
    \/ DefineClass1
    \/ Cell3
    \/ Cell5
    \/ CallForward
    \/ Cell7Setup
    \/ FitStart
    \/ FetchItem
    \/ SanityValStep
    \/ SanityEnd
    \/ TrainingStep
    \/ FitStop
    \/ SaveCheckpoint
    \/ DefineClass2
    \/ Cell11

Spec == Init /\ [][Next]_vars

(***************************************************************************)
(* Helpers of the properties.                                              *)
(***************************************************************************)
\* the row's squared L2 norm is exactly 1: sum of num^2/den2 = 1
RowNormIsOne(row) ==
    /\ \A j \in 1..Len(row) : row[j].den2 # 0
    /\ SumSeq([j \in 1..Len(row) |->
                 row[j].num * row[j].num
                 * ProdSeq([k \in 1..Len(row) |->
                              IF k = j THEN 1 ELSE row[k].den2])])
       = ProdSeq([j \in 1..Len(row) |-> row[j].den2])

\* the raw encoder output of the row (the numerators) is the zero vector
RawRowZero(row) == \A j \in 1..Len(row) : row[j].num = 0
\* every element of the row is a division by zero
RowNonFinite(row) == \A j \in 1..Len(row) : row[j].den2 = 0

Returned == last_call.outcome = "returned" /\ ~IsNone(last_call.result)
ResultRows == last_call.result.rows
ForwardOps == {"forward", "validation_step", "training_step", "cell5"}
PromptText == Tensor(Tokenize(Prompt))

(***************************************************************************)
(* C1: forward with text and image both None ends in ValueError, returns   *)
(* no embedding and invokes neither encoder, under both class definitions. *)
(***************************************************************************)
C1_NeitherRaises ==
    (last_call.outcome # "none" /\ IsNone(last_call.text) /\ IsNone(last_call.image))
        => /\ last_call.outcome = "ValueError"
           /\ IsNone(last_call.result)
           /\ last_call.calls = <<>>

C1_Witness ==
    /\ last_op = "forward"
    /\ model.class = 2
    /\ IsNone(last_call.text) /\ IsNone(last_call.image)
    /\ last_call.outcome = "ValueError"

(***************************************************************************)
(* C2: with zero training steps, the embedding computed after reloading    *)
(* the checkpoint into a fresh instance equals the embedding cell 5        *)
(* computed before the run, and the reload raises nothing.                 *)
(***************************************************************************)
C2_RoundTrip ==
    (pc = "done" /\ trainer.max_steps = NotebookMaxSteps /\ ~IsNone(ckpt))
        => /\ cell_error = "none"
           /\ ~IsNone(example_output)
           /\ example_output = output_before_save

C2_Witness ==
    /\ pc = "done"
    /\ last_op = "cell11"
    /\ trainer.max_steps = NotebookMaxSteps
    /\ ~IsNone(ckpt)
    /\ example_output = output_before_save
    /\ CreateModel(init_draw) # model.clip_module

(***************************************************************************)
(* C3 as stated: every row of every tensor forward returns has L2 norm 1.  *)
(***************************************************************************)
C3_Original ==
    Returned => \A i \in 1..Len(ResultRows) : RowNormIsOne(ResultRows[i])

(***************************************************************************)
(* C3 amended: every row whose raw encoder output is not the zero vector   *)
(* has L2 norm 1, on the text and on the image branch.                     *)
(***************************************************************************)
C3_UnitNormNonZero ==
    Returned =>
        /\ last_call.calls \in {<<"encode_text">>, <<"encode_image">>}
        /\ \A i \in 1..Len(ResultRows) :
             /\ Len(ResultRows[i]) = EmbedDim
             /\ ~RawRowZero(ResultRows[i]) => RowNormIsOne(ResultRows[i])

C3_Witness ==
    /\ Returned
    /\ last_call.calls = <<"encode_image">>
    /\ Len(ResultRows) > 1
    /\ \E i \in 1..Len(ResultRows) :
         ~RawRowZero(ResultRows[i]) /\ RowNormIsOne(ResultRows[i])

(***************************************************************************)
(* C4: a call of forward with text and image both supplied returns, with   *)
(* the result of forward(image=image) alone on the same module; it invokes *)
(* encode_image once and encode_text never, and no other text changes it.  *)
(***************************************************************************)
C4_ImagePrecedence ==
    [][(last_op' = "forward" /\ ~IsNone(last_call'.text) /\ ~IsNone(last_call'.image))
          => /\ last_call'.outcome = "returned"
             /\ last_call'.calls = <<"encode_image">>
             /\ last_call'.result = Forward(model, None, last_call'.image).result
             /\ \A t \in TextInputs :
                  Forward(model, t, last_call'.image).result = last_call'.result]_vars

C4_Witness ==
    /\ last_op = "forward"
    /\ ~IsNone(last_call.text) /\ ~IsNone(last_call.image)
    /\ last_call.outcome = "returned"
    /\ last_call.calls = <<"encode_image">>

(***************************************************************************)
(* C5: the run with max_steps = 0 executes no training_step and no         *)
(* optimizer step, and the parameters written to the checkpoint are those  *)
(* of the pretrained weight file the wrapper was constructed from.         *)
(***************************************************************************)
C5_ZeroSteps ==
    (trainer.max_steps = NotebookMaxSteps)
        => /\ trainer.global_step = 0
           /\ last_op # "training_step"
           /\ ~IsNone(ckpt) =>
                /\ ckpt.global_step = 0
                /\ \A k \in ParamNames :
                     ckpt.state_dict[<<"clip_module", k>>] = weight_file[k]

C5_Witness ==
    /\ pc = "cell9"
    /\ last_op = "save_checkpoint"
    /\ trainer.max_steps = NotebookMaxSteps
    /\ ~IsNone(ckpt)
    /\ sanity_done = NumSanityValSteps

(***************************************************************************)
(* C6: an instance constructed by the first definition computes, for every *)
(* input, what any other instance constructed from the same weight file    *)
(* computes, whatever random initialisation either construction drew; so   *)
(* does the inference of cell 5.                                           *)
(***************************************************************************)
C6_LoadDeterminism ==
    /\ (last_op = "cell3" /\ model.class = 1) =>
          \A r \in InitDraws :
             \A t \in TextInputs \cup {PromptText}, i \in ImageInputs \cup {None} :
                Forward(model, t, i).result
                    = Forward(Init1(r, weight_file).model, t, i).result
    /\ (~IsNone(output_before_save) /\ class_def = 1) =>
          \A r \in InitDraws :
             output_before_save
                 = Forward(Init1(r, weight_file).model, PromptText, None).result

C6_Witness ==
    /\ pc = "cell7"
    /\ model.class = 1
    /\ init_draw = NumInitDraws
    /\ ~IsNone(output_before_save)

(***************************************************************************)
(* C7 as stated: no call of forward (direct, from cell 5, or through a      *)
(* step of the runner) changes the tokenizer or the contents of state_dict.*)
(***************************************************************************)
C7_Original ==
    [][(last_op' \in ForwardOps)
          => /\ model'.tokenizer = model.tokenizer
             /\ StateDict(model') = StateDict(model)]_vars

(***************************************************************************)
(* C7 amended: a call of forward never changes the tokenizer or a          *)
(* parameter; a call without an image changes nothing of state_dict; a     *)
(* call with an image on a module in training mode changes only the        *)
(* visual tower's normalisation buffers.                                   *)
(***************************************************************************)
C7_ForwardFrame ==
    [][(last_op' \in ForwardOps)
          => /\ model'.tokenizer = model.tokenizer
             /\ \A k \in ParamNames : model'.clip_module[k] = model.clip_module[k]
             /\ IsNone(last_call'.image) => StateDict(model') = StateDict(model)
             /\ StateDict(model') # StateDict(model)
                  => ~IsNone(last_call'.image) /\ model.training]_vars

C7_Witness ==
    /\ last_op = "forward"
    /\ ~IsNone(last_call.image)
    /\ model.clip_module["visual.bn1.num_batches_tracked"]
         > weight_file["visual.bn1.num_batches_tracked"]
    /\ \A k \in ParamNames : model.clip_module[k] = weight_file[k]

(***************************************************************************)
(* C8: the checkpoint holds exactly the names the fresh instance of the    *)
(* second definition expects, load_state_dict raises nothing and leaves    *)
(* the instance's state_dict equal to the checkpoint's, and the embedding  *)
(* computed after the reload is the one any other initialisation of the    *)
(* fresh instance would have given.                                        *)
(***************************************************************************)
C8_ReloadOverwritesAll ==
    (pc = "done" /\ last_op = "cell11" /\ ~IsNone(ckpt))
        => /\ cell_error = "none"
           /\ model.class = 2
           /\ DOMAIN ckpt.state_dict = DOMAIN StateDict(Init2(init_draw).model)
           /\ StateDict(model) = ckpt.state_dict
           /\ \A r \in InitDraws :
                example_output
                    = Forward(ModuleLoadStateDict(Init2(r).model,
                                                  ckpt.state_dict).model,
                              PromptText, None).result

C8_Witness ==
    /\ pc = "done"
    /\ last_op = "cell11"
    /\ ~IsNone(ckpt)
    /\ model.class = 2
    /\ \A k \in ParamNames : CreateModel(init_draw)[k] # model.clip_module[k]
    /\ StateDict(model) = ckpt.state_dict

(***************************************************************************)
(* C9: a row whose raw embedding is the zero vector makes forward return   *)
(* normally with that row non-finite (no error, no substituted value), on  *)
(* either branch, while the other rows of the batch have norm 1.           *)
(***************************************************************************)
C9_ZeroNormUnguarded ==
    (last_call.calls # <<>>) =>
        /\ Returned
        /\ \A i \in 1..Len(ResultRows) :
             IF RawRowZero(ResultRows[i])
             THEN RowNonFinite(ResultRows[i])
             ELSE RowNormIsOne(ResultRows[i])

C9_Witness ==
    /\ Returned
    /\ last_call.calls = <<"encode_image">>
    /\ \E i, k \in 1..Len(ResultRows) :
         /\ RawRowZero(ResultRows[i]) /\ RowNonFinite(ResultRows[i])
         /\ ~RawRowZero(ResultRows[k]) /\ RowNormIsOne(ResultRows[k])

(***************************************************************************)
(* C10 as stated: 100 items split 80/20, every batch of either loader has  *)
(* exactly 10 items, and every item is the same (text, target) pair.       *)
(***************************************************************************)
BatchesAllFull(n, bs) == \A b \in 1..NumBatches(n, bs) : BatchLen(n, bs, b) = 10

DatasetShape ==
    /\ DatasetLength = 100
    /\ loaders.train = 80 /\ loaders.val = 20
    /\ BatchesAllFull(loaders.train, loaders.batch_size)
    /\ BatchesAllFull(loaders.val, loaders.batch_size)

\* the items fetched so far: all with the prompt's tokens and a target of the
\* shape of one row of the forward output
BatchShape ==
    /\ Len(batch) <= 10
    /\ \A i \in 1..Len(batch) :
         /\ batch[i].text = Tokenize(Prompt)[1]
         /\ Len(batch[i].output) = Len(example_output.rows[1])

\* the batch handed to the last step had exactly 10 items
HandedBatchFull ==
    (last_op \in {"validation_step", "training_step"}) =>
        /\ Len(last_call.text.rows) = 10
        /\ loss.loss.target_size = <<10, Len(example_output.rows[1])>>

C10_Original ==
    /\ loaders.batch_size # 0 => DatasetShape
    /\ HandedBatchFull
    /\ BatchShape
    /\ \A i, j \in 1..Len(batch) : batch[i].output = batch[j].output

(***************************************************************************)
(* C10 amended: 100 items split 80/20, every batch of either loader has    *)
(* exactly 10 items, every item has the same text, and every target is a   *)
(* freshly drawn random tensor with the shape of one row of the forward    *)
(* output (the targets of a batch are not a constant).                     *)
(***************************************************************************)
C10_DatasetBatches ==
    /\ loaders.batch_size # 0 => DatasetShape
    /\ HandedBatchFull
    /\ BatchShape
    /\ \A i \in 1..Len(batch) :
         \E v \in TargetVals : batch[i].output = [j \in 1..EmbedDim |-> v]

C10_Witness ==
    /\ pc = "sanity"
    /\ sanity_done = 1
    /\ Len(batch) = 10
    /\ \E i, j \in 1..Len(batch) : batch[i].output # batch[j].output
    /\ batch[1].output = batch[2].output

====
